---- MODULE Spec2Model ----
(***************************************************************************)
(* A model of the gotext package-level API (gotext.go): the process-wide   *)
(* registry configMap / defaultLang, the per-config RWMutex, and the       *)
(* lookups Get, GetN, GetC, GetNC, GetD, GetND, GetDC, GetNDC, taken one   *)
(* source statement group at a time so that goroutines interleave.         *)
(* Locale, Domain, Printf and SimplifiedLocale are not part of the sources *)
(* at hand; they are modelled from the specification text.                 *)
(* The directory parser of the xgotext tool (parser.go) is modelled one     *)
(* statement group at a time as well.                                      *)
(***************************************************************************)
EXTENDS Integers, Sequences, FiniteSets, TLC

VARIABLES
    \* the package-level registry of gotext.go
    configMap, configs, defaultLang, rw, th, ret, calls,
    \* one Domain, the Translation objects of the heap, and what a caller of
    \* GetTranslations, MarshalBinary and UnmarshalBinary holds
    catalog, domain, objects, all, buff, po2, lookup,
    \* the xgotext directory parser (cli/xgotext/parser/dir/parser.go): the
    \* registered parsers, the directory tree on disk, the frame of the running
    \* ParseDir / ParseDirRec call, the directories ParseDir was called for, the
    \* parser calls made, and what the call returned
    knownParser, tree, frame, parsed, log, result

registryVars == <<configMap, configs, defaultLang, rw, th, ret, calls>>

domainVars == <<catalog, domain, objects, all, buff, po2, lookup>>

parserVars == <<knownParser, tree, frame, parsed, log, result>>

vars == <<registryVars, domainVars, parserVars>>

(***************************************************************************)
(* Bounds of the model.                                                    *)
(***************************************************************************)
\* config objects that AddConfig may allocate (one per AddConfig call)
MaxConfigs == 2
\* API calls started in one behaviour
MaxCalls == 3
\* parsers registered with AddParser
MaxParsers == 2

Threads == {"g1", "g2"}
MainThread == "g1"

(***************************************************************************)
(* Strings.  A string is a sequence of tokens; "%s" and "%d" are the       *)
(* printf verbs.  A language code is a sequence of tokens in which ".",    *)
(* "@" and ":" separate the locale name from its codeset / modifier.       *)
(***************************************************************************)
Verbs == {"%s", "%d"}
Separators == {".", "@", ":"}

EmptyString == <<>>

LangEn == <<"en_US">>
LangEnUtf8 == <<"en_US", ".", "UTF-8">>
LangDe == <<"de_DE">>

MsgHello == <<"Hello">>
MsgName == <<"Hi", "%s">>
MsgItem == <<"one", "item">>
MsgItems == <<"%d", "items">>

MinOf(S) == CHOOSE m \in S : \A k \in S : m <= k

\* SimplifiedLocale cuts a language code at its first separator:
\* en_US.UTF-8 -> en_US, el_GR@euro -> el_GR.
SimplifiedLocale(lang) ==
    LET seps == {i \in 1..Len(lang) : lang[i] \in Separators}
    IN IF seps = {} THEN lang ELSE SubSeq(lang, 1, MinOf(seps) - 1)

RECURSIVE Sprintf(_, _)
\* Positional substitution: the i-th verb of the template is replaced by the
\* i-th argument; a verb without an argument is left as it is.
Sprintf(str, args) ==
    IF str = <<>> THEN <<>>
    ELSE IF Head(str) \in Verbs /\ args # <<>>
         THEN <<Head(args)>> \o Sprintf(Tail(str), Tail(args))
         ELSE <<Head(str)>> \o Sprintf(Tail(str), args)

\* Printf formats str with the variadic arguments.
Printf(str, args) == Sprintf(str, args)

(***************************************************************************)
(* Domain values: what a parsed catalog holds.  An entry is keyed by       *)
(* <<context, id>>; Trs[i + 1] is the target form of plural index i.       *)
(***************************************************************************)
NoContext == ""

Key(ctx, id) == <<ctx, id>>

\* The plural rule of a catalog without a Plural-Forms header.
NoPluralRule == [declared |-> FALSE, nplurals |-> 2, expr |-> <<"n">>]

\* Plural-Forms declarations, as the header of a catalog writes them.
PluralForms2 == "nplurals=2; plural=(n != 1);"
PluralForms3 == "nplurals=3; plural=(n%10==1 && n%100!=11) ? 0 : ((n%10>=2 && n%10<=4 && (n%100<12 || n%100>14)) ? 1 : 2);"

Lit(k) == <<"lit", k>>

NMod(k) == <<"%", <<"n">>, Lit(k)>>

\* The expression tree of PluralForms3.
PluralExpr3 ==
    <<"?", <<"&&", <<"==", NMod(10), Lit(1)>>, <<"!=", NMod(100), Lit(11)>>>>,
           Lit(0),
           <<"?", <<"&&", <<"&&", <<">=", NMod(10), Lit(2)>>, <<"<=", NMod(10), Lit(4)>>>>,
                          <<"||", <<"<", NMod(100), Lit(12)>>, <<">", NMod(100), Lit(14)>>>>>>,
                  Lit(1),
                  Lit(2)>>>>

\* The rule a Plural-Forms declaration parses to; no declaration, no rule.
ParsePluralForms(text) ==
    CASE text = PluralForms2 ->
            [declared |-> TRUE, nplurals |-> 2, expr |-> <<"!=", <<"n">>, Lit(1)>>]
      [] text = PluralForms3 ->
            [declared |-> TRUE, nplurals |-> 3, expr |-> PluralExpr3]
      [] OTHER -> NoPluralRule

BoolInt(b) == IF b THEN 1 ELSE 0

RECURSIVE Eval(_, _)
\* Evaluation of a plural expression tree with the free variable n bound.
Eval(e, n) ==
    CASE e[1] = "n" -> n
      [] e[1] = "lit" -> e[2]
      [] e[1] = "!" -> BoolInt(Eval(e[2], n) = 0)
      [] e[1] = "%" -> Eval(e[2], n) % Eval(e[3], n)
      [] e[1] = "==" -> BoolInt(Eval(e[2], n) = Eval(e[3], n))
      [] e[1] = "!=" -> BoolInt(Eval(e[2], n) # Eval(e[3], n))
      [] e[1] = ">" -> BoolInt(Eval(e[2], n) > Eval(e[3], n))
      [] e[1] = "<" -> BoolInt(Eval(e[2], n) < Eval(e[3], n))
      [] e[1] = ">=" -> BoolInt(Eval(e[2], n) >= Eval(e[3], n))
      [] e[1] = "<=" -> BoolInt(Eval(e[2], n) <= Eval(e[3], n))
      [] e[1] = "&&" -> BoolInt(Eval(e[2], n) # 0 /\ Eval(e[3], n) # 0)
      [] e[1] = "||" -> BoolInt(Eval(e[2], n) # 0 \/ Eval(e[3], n) # 0)
      [] e[1] = "?" -> IF Eval(e[2], n) # 0 THEN Eval(e[3], n) ELSE Eval(e[4], n)

\* A default rule that takes the count itself as the form index.
DefaultPluralFormByCount(n) == n

\* The default rule: N = 2, form 0 for a count of one and form 1 otherwise.
DefaultPluralForm(n) == IF n = 1 THEN 0 ELSE 1

\* select(n): the plural form index the catalog's rule gives a count.
PluralForm(rule, n) ==
    IF rule.declared THEN Eval(rule.expr, n) ELSE DefaultPluralForm(n)

\* The form of index i of an entry, the empty string when it has none.
FormAt(entry, i) ==
    IF i >= 0 /\ i < Len(entry.Trs) THEN entry.Trs[i + 1] ELSE EmptyString

\* Lookup(id, context): target form 0, or id itself when absent or empty.
DomainGetC(d, str, ctx, args) ==
    LET k == Key(ctx, str)
    IN IF k \in DOMAIN d.tr /\ FormAt(d.tr[k], 0) # EmptyString
       THEN Printf(FormAt(d.tr[k], 0), args)
       ELSE Printf(str, args)

\* LookupPlural(id, pluralID, count, context): the select(count)-th form,
\* falling back to pluralID (count # 1) or id (count = 1).
DomainGetNC(d, str, plural, n, ctx, args) ==
    LET k == Key(ctx, str)
        i == PluralForm(d.rule, n)
    IN IF k \in DOMAIN d.tr /\ FormAt(d.tr[k], i) # EmptyString
       THEN Printf(FormAt(d.tr[k], i), args)
       ELSE IF n = 1 THEN Printf(str, args) ELSE Printf(plural, args)

DomainGet(d, str, args) == DomainGetC(d, str, NoContext, args)

DomainGetN(d, str, plural, n, args) == DomainGetNC(d, str, plural, n, NoContext, args)

\* Whether the domain resolves <<ctx, str>> to a translation of form i.
HasForm(d, str, ctx, i) ==
    Key(ctx, str) \in DOMAIN d.tr /\ FormAt(d.tr[Key(ctx, str)], i) # EmptyString

Entry(id, pluralID, trs) ==
    [ID |-> id, PluralID |-> pluralID, Trs |-> trs, Refs |-> <<>>, dirty |-> FALSE]

\* A Domain value: the entries, the declared language, the Plural-Forms text
\* of the header ("" when it has none) and the rule parsed from it.
MkDomain(tr, language, plural) ==
    [tr |-> tr, language |-> language, plural |-> plural, rule |-> ParsePluralForms(plural)]

EmptyDomain == MkDomain(<<>>, "", "")

\* The catalog file <lib1>/en_US/default.po.
CatalogEnDefault ==
    MkDomain((Key(NoContext, MsgHello) :> Entry(MsgHello, EmptyString, <<<<"Hola">>>>))
             @@ (Key("menu", MsgHello) :> Entry(MsgHello, EmptyString, <<<<"Abrir">>>>))
             @@ (Key(NoContext, MsgItem) :>
                     Entry(MsgItem, MsgItems, <<<<"un", "objeto">>, <<"%d", "objetos">>>>)),
             "en_US", "")

\* The catalog files below the library directories: what a load of
\* <lib>/<lang>/<dom>.po parses to (an empty Domain when there is no file).
CatalogFile(lib, lang, dom) ==
    IF lib = "lib1" /\ lang = LangEn /\ dom = "default"
    THEN CatalogEnDefault
    ELSE EmptyDomain

(***************************************************************************)
(* Locale: the named Domains of one language and the selected domain.      *)
(***************************************************************************)
NilStorage == [nil |-> TRUE, path |-> "", lang |-> <<>>, Domains |-> {}, domain |-> ""]

NewLocale(lib, lang) ==
    [nil |-> FALSE, path |-> lib, lang |-> SimplifiedLocale(lang),
     Domains |-> {}, domain |-> ""]

\* AddDomain loads <path>/<lang>/<dom>.po and keeps it under the name dom.
LocaleAddDomain(l, dom) == [l EXCEPT !.Domains = @ \cup {dom}]

LocaleSetDomain(l, dom) == [l EXCEPT !.domain = dom]

LocaleGetDomain(l) == l.domain

LocaleDomain(l, dom) == CatalogFile(l.path, l.lang, dom)

LocaleGetDC(l, dom, str, ctx, args) ==
    IF dom \in l.Domains
    THEN DomainGetC(LocaleDomain(l, dom), str, ctx, args)
    ELSE Printf(str, args)

LocaleGetNDC(l, dom, str, plural, n, ctx, args) ==
    IF dom \in l.Domains
    THEN DomainGetNC(LocaleDomain(l, dom), str, plural, n, ctx, args)
    ELSE IF n = 1 THEN Printf(str, args) ELSE Printf(plural, args)

LocaleGetD(l, dom, str, args) == LocaleGetDC(l, dom, str, NoContext, args)

LocaleGetND(l, dom, str, plural, n, args) ==
    LocaleGetNDC(l, dom, str, plural, n, NoContext, args)

\* Whether the Locale has a translation for the lookup (form i of the entry).
LocaleHasForm(l, dom, str, ctx, i) ==
    dom \in l.Domains /\ HasForm(LocaleDomain(l, dom), str, ctx, i)

(***************************************************************************)
(* Text catalogs and the text catalog parser.  A catalog is a sequence of  *)
(* records; the header record carries Key: Value lines, an entry record    *)
(* its msgctxt, msgid, msgid_plural, indexed msgstr lines and references.  *)
(***************************************************************************)
\* records of one catalog besides its header
MaxRecords == 2
\* the counts n a plural lookup is made with are 0..MaxCount
MaxCount == 3

MkEntry(id, pluralID, trs, refs, dirty) ==
    [ID |-> id, PluralID |-> pluralID, Trs |-> trs, Refs |-> refs, dirty |-> dirty]

HeaderRecord(lines) ==
    [kind |-> "header", ctx |-> NoContext, id |-> EmptyString, plural |-> EmptyString,
     forms |-> <<>>, refs |-> <<>>, hdr |-> lines]

EntryRecord(ctx, id, plural, forms, refs) ==
    [kind |-> "entry", ctx |-> ctx, id |-> id, plural |-> plural,
     forms |-> forms, refs |-> refs, hdr |-> <<>>]

\* The headers a catalog may start with; <<>> is a catalog without a header.
HeaderPool ==
    {<<>>,
     <<HeaderRecord(<<<<"Language", "en_US">>>>)>>,
     <<HeaderRecord(<<<<"Plural-Forms", PluralForms2>>, <<"Language", "es_ES">>>>)>>}

\* The entry records a catalog is made of.
RecordPool ==
    {EntryRecord(NoContext, MsgHello, EmptyString, <<<<0, <<"Hola">>>>>>, <<"main.go:1">>),
     EntryRecord(NoContext, MsgHello, EmptyString, <<<<0, <<"Buenas">>>>>>, <<>>),
     EntryRecord(NoContext, MsgName, EmptyString, <<<<0, EmptyString>>>>, <<"main.go:2">>),
     EntryRecord(NoContext, MsgItem, MsgItems,
                 <<<<2, <<"%d", "objetos", "mas">>>>, <<0, <<"un", "objeto">>>>,
                   <<1, <<"%d", "objetos">>>>>>, <<"main.go:3", "list.go:9">>)}

RECURSIVE SeqsUpTo(_, _)
\* The sequences over S of length at most n.
SeqsUpTo(S, n) ==
    IF n = 0 THEN {<<>>}
    ELSE LET shorter == SeqsUpTo(S, n - 1)
         IN shorter \cup {Append(q, x) : q \in shorter, x \in S}

Catalogs == {h \o body : h \in HeaderPool, body \in SeqsUpTo(RecordPool, MaxRecords)}

MaxOf(S) == CHOOSE m \in S : \A k \in S : m >= k

\* msgstr[i] lines are assigned by their explicit index, the last one given
\* for an index standing; an index without a line is the empty string.
BuildTrs(forms) ==
    IF forms = <<>> THEN <<>>
    ELSE LET n == 1 + MaxOf({forms[j][1] : j \in 1..Len(forms)})
         IN [i \in 1..n |->
               LET given == {j \in 1..Len(forms) : forms[j][1] = i - 1}
               IN IF given = {} THEN EmptyString ELSE forms[MaxOf(given)][2]]

\* An entry whose every target form is empty needs translation.
NeedsTranslation(trs) == \A i \in 1..Len(trs) : trs[i] = EmptyString

RECURSIVE ApplyHeader(_, _)
\* The Plural-Forms and Language lines of the header are applied to the Domain.
ApplyHeader(d, lines) ==
    IF lines = <<>> THEN d
    ELSE LET key == Head(lines)[1]
             value == Head(lines)[2]
             d1 == CASE key = "Plural-Forms" -> MkDomain(d.tr, d.language, value)
                     [] key = "Language" -> MkDomain(d.tr, value, d.plural)
                     [] OTHER -> d
         IN ApplyHeader(d1, Tail(lines))

\* One record is added to the Domain; a later record of the same
\* (ID, Context) overwrites an earlier one.
AddRecord(d, r) ==
    IF r.kind = "header" THEN ApplyHeader(d, r.hdr)
    ELSE LET trs == BuildTrs(r.forms)
             e == MkEntry(r.id, r.plural, trs, r.refs, NeedsTranslation(trs))
             k == Key(r.ctx, r.id)
         IN MkDomain((k :> e) @@ d.tr, d.language, d.plural)

RECURSIVE ParseInto(_, _)
ParseInto(d, records) ==
    IF records = <<>> THEN d ELSE ParseInto(AddRecord(d, Head(records)), Tail(records))

\* The Domain a text catalog parses to.
ParseCatalog(records) == ParseInto(EmptyDomain, records)

RECURSIVE KeySeq(_)
\* The keys of a map in the order an iteration visits them.
KeySeq(S) ==
    IF S = {} THEN <<>>
    ELSE LET k == CHOOSE x \in S : TRUE IN <<k>> \o KeySeq(S \ {k})

(***************************************************************************)
(* The snapshot codec: MarshalBinary writes the Domain as a flat sequence  *)
(* of fields, each list preceded by its length; UnmarshalBinary reads the  *)
(* fields back into a Domain.                                              *)
(***************************************************************************)
SnapshotTag == "TranslatorEncoding"

EncodeStrs(strs) == <<Len(strs)>> \o strs

\* An encoder that leaves the target forms of an entry out.
EncodeEntryNoTrs(k, e) ==
    <<"entry", k[1], e.ID, e.PluralID, e.dirty>> \o EncodeStrs(<<>>) \o EncodeStrs(e.Refs)

\* One entry of the snapshot: context, ID, PluralID, dirty, Trs, Refs.
EncodeEntry(k, e) ==
    <<"entry", k[1], e.ID, e.PluralID, e.dirty>> \o EncodeStrs(e.Trs) \o EncodeStrs(e.Refs)

RECURSIVE EncodeEntries(_, _)
EncodeEntries(tr, keys) ==
    IF keys = <<>> THEN <<>>
    ELSE EncodeEntry(Head(keys), tr[Head(keys)]) \o EncodeEntries(tr, Tail(keys))

\* The header fields of the snapshot: language and Plural-Forms source text.
EncodeHeader(d) == <<SnapshotTag, d.language, d.plural>>

MarshalBinary(d) ==
    EncodeHeader(d) \o <<Cardinality(DOMAIN d.tr)>> \o EncodeEntries(d.tr, KeySeq(DOMAIN d.tr))

\* A length-prefixed list read at pos: the list and the position after it.
ReadStrs(b, pos) ==
    IF pos > Len(b) \/ pos + b[pos] > Len(b)
    THEN [ok |-> FALSE, val |-> <<>>, next |-> pos]
    ELSE [ok |-> TRUE, val |-> SubSeq(b, pos + 1, pos + b[pos]), next |-> pos + 1 + b[pos]]

\* One entry read at pos.
ReadEntry(b, pos) ==
    IF pos + 4 > Len(b) \/ b[pos] # "entry"
    THEN [ok |-> FALSE, key |-> Key(NoContext, EmptyString),
          entry |-> MkEntry(EmptyString, EmptyString, <<>>, <<>>, TRUE), next |-> pos]
    ELSE LET trs == ReadStrs(b, pos + 5)
             refs == ReadStrs(b, trs.next)
         IN [ok |-> trs.ok /\ refs.ok,
             key |-> Key(b[pos + 1], b[pos + 2]),
             entry |-> MkEntry(b[pos + 2], b[pos + 3], trs.val, refs.val, b[pos + 4]),
             next |-> refs.next]

RECURSIVE ReadEntries(_, _, _, _)
\* n entries read from pos on, added to the map tr.
ReadEntries(b, pos, n, tr) ==
    IF n = 0 THEN [ok |-> pos = Len(b) + 1, tr |-> tr]
    ELSE LET e == ReadEntry(b, pos)
         IN IF ~e.ok THEN [ok |-> FALSE, tr |-> tr]
            ELSE ReadEntries(b, e.next, n - 1, (e.key :> e.entry) @@ tr)

\* The Domain a snapshot decodes to; the plural rule is rebuilt from its
\* source text.  ok is FALSE for bytes that are no snapshot.
UnmarshalBinary(b) ==
    IF Len(b) < 4 \/ b[1] # SnapshotTag
    THEN [ok |-> FALSE, d |-> EmptyDomain]
    ELSE LET es == ReadEntries(b, 5, b[4], <<>>)
         IN [ok |-> es.ok, d |-> MkDomain(es.tr, b[2], b[3])]

(***************************************************************************)
(* The Domain in memory.  domain.translations maps a key to the address of *)
(* a Translation object; the Trs map and the Refs slice of a Translation   *)
(* are containers of their own, held by address (0 is nil).                *)
(***************************************************************************)
ObjAddrs == 1..(2 * MaxRecords)

MsgChanged == <<"changed">>

FreeObject ==
    [alloc |-> FALSE, ID |-> EmptyString, PluralID |-> EmptyString, dirty |-> FALSE,
     Trs |-> 0, Refs |-> 0]

NoObjects ==
    [tr |-> [a \in ObjAddrs |-> FreeObject],
     trs |-> [a \in ObjAddrs |-> <<>>],
     refs |-> [a \in ObjAddrs |-> <<>>]]

NoDomain == [translations |-> <<>>, language |-> "", plural |-> ""]

NoResult == [set |-> FALSE, m |-> <<>>]

NoLookup == [op |-> "", id |-> EmptyString, ctx |-> NoContext, n |-> 0, idx |-> 0,
             val |-> EmptyString]

NoPo2 == [set |-> FALSE, ok |-> FALSE, d |-> EmptyDomain]

\* The position of key k in the sequence keys.
IndexOf(keys, k) == CHOOSE i \in 1..Len(keys) : keys[i] = k

\* The Domain object a parsed catalog is kept as.
DomainOf(d) ==
    LET keys == KeySeq(DOMAIN d.tr)
    IN [translations |-> [k \in DOMAIN d.tr |-> IndexOf(keys, k)],
        language |-> d.language, plural |-> d.plural]

\* The Translation objects and containers a parsed catalog is kept in.
ObjectsOf(d) ==
    LET keys == KeySeq(DOMAIN d.tr)
        n == Len(keys)
    IN [tr |-> [a \in ObjAddrs |->
                  IF a > n THEN FreeObject
                  ELSE LET e == d.tr[keys[a]]
                       IN [alloc |-> TRUE, ID |-> e.ID, PluralID |-> e.PluralID,
                           dirty |-> e.dirty, Trs |-> a,
                           Refs |-> IF e.Refs = <<>> THEN 0 ELSE a]],
        trs |-> [a \in ObjAddrs |-> IF a > n THEN <<>> ELSE d.tr[keys[a]].Trs],
        refs |-> [a \in ObjAddrs |-> IF a > n THEN <<>> ELSE d.tr[keys[a]].Refs]]

\* The Translation at address a, with its containers read.
TranslationAt(objs, a) ==
    LET o == objs.tr[a]
    IN MkEntry(o.ID, o.PluralID, objs.trs[o.Trs],
               IF o.Refs = 0 THEN <<>> ELSE objs.refs[o.Refs], o.dirty)

\* What the Domain holds: its entries, language and plural rule.
View ==
    MkDomain([k \in DOMAIN domain.translations |->
                 TranslationAt(objects, domain.translations[k])],
             domain.language, domain.plural)

\* No Domain: the state of the Domain variables in the registry's behaviours.
DomainIdle ==
    /\ catalog = <<>>
    /\ domain = NoDomain
    /\ objects = NoObjects
    /\ all = NoResult
    /\ buff = <<>>
    /\ po2 = NoPo2
    /\ lookup = NoLookup

\* po.ParseFile(f): a Domain parsed from a text catalog.
DomainInit ==
    /\ catalog \in Catalogs
    /\ domain = DomainOf(ParseCatalog(catalog))
    /\ objects = ObjectsOf(ParseCatalog(catalog))
    /\ all = NoResult
    /\ buff = <<>>
    /\ po2 = NoPo2
    /\ lookup = NoLookup

\* A copy that keeps pointing to the containers of the original.
CopyTranslationShallow(o, b) == o

\* The pointer fields of the copy that GetTranslations makes at address b of
\* a Translation: containers of its own.
CopyTranslation(o, b) ==
    [o EXCEPT !.Trs = b, !.Refs = IF o.Refs = 0 THEN 0 ELSE b]

\* GetTranslations: a new Translation per entry, with copies of its Trs and Refs.
GetTranslations ==
    /\ ~all.set
    /\ LET n == Cardinality(DOMAIN domain.translations)
           from(b) == b - n
           copies == {domain.translations[k] + n : k \in DOMAIN domain.translations}
       IN /\ objects' =
               [tr |-> [b \in ObjAddrs |->
                          IF b \in copies THEN CopyTranslation(objects.tr[from(b)], b)
                          ELSE objects.tr[b]],
                trs |-> [b \in ObjAddrs |->
                          IF b \in copies THEN objects.trs[objects.tr[from(b)].Trs]
                          ELSE objects.trs[b]],
                refs |-> [b \in ObjAddrs |->
                          IF b \in copies /\ objects.tr[from(b)].Refs # 0
                          THEN objects.refs[objects.tr[from(b)].Refs]
                          ELSE objects.refs[b]]]
          /\ all' = [set |-> TRUE,
                     m |-> [k \in DOMAIN domain.translations |-> domain.translations[k] + n]]
    /\ lookup' = [NoLookup EXCEPT !.op = "GetTranslations"]
    /\ UNCHANGED <<catalog, domain, buff, po2, registryVars, parserVars>>

\* The caller assigns the fields of a Translation it was returned.
MutateFields ==
    /\ \E k \in DOMAIN all.m :
         objects' = [objects EXCEPT !.tr[all.m[k]] =
                        [@ EXCEPT !.ID = MsgChanged, !.PluralID = MsgChanged, !.dirty = ~@]]
    /\ lookup' = NoLookup
    /\ UNCHANGED <<catalog, domain, all, buff, po2, registryVars, parserVars>>

\* The caller writes Trs[0] of a Translation it was returned.
MutateTrs ==
    /\ \E k \in DOMAIN all.m :
         LET c == objects.tr[all.m[k]].Trs
         IN objects' = [objects EXCEPT !.trs[c] =
                           IF @ = <<>> THEN <<MsgChanged>> ELSE [@ EXCEPT ![1] = MsgChanged]]
    /\ lookup' = NoLookup
    /\ UNCHANGED <<catalog, domain, all, buff, po2, registryVars, parserVars>>

\* The caller writes Refs[0] of a Translation it was returned.
MutateRefs ==
    /\ \E k \in DOMAIN all.m :
         LET c == objects.tr[all.m[k]].Refs
         IN /\ c # 0
            /\ objects' = [objects EXCEPT !.refs[c] = [@ EXCEPT ![1] = "changed.go:0"]]
    /\ lookup' = NoLookup
    /\ UNCHANGED <<catalog, domain, all, buff, po2, registryVars, parserVars>>

\* The msgids and contexts the Domain is asked for.
LookupIds == {MsgHello, MsgName}

LookupCtxs == {NoContext, "menu"}

LookupPluralIds == {MsgItem}

LookupArgs == <<"5">>

\* po.GetC(str, ctx, vars...)
DomainLookup ==
    /\ \E id \in LookupIds, ctx \in LookupCtxs :
         lookup' = [NoLookup EXCEPT !.op = "Get", !.id = id, !.ctx = ctx,
                                    !.val = DomainGetC(View, id, ctx, LookupArgs)]
    /\ UNCHANGED <<catalog, domain, objects, all, buff, po2, registryVars, parserVars>>

\* po.GetN(str, plural, n, vars...)
DomainLookupN ==
    /\ \E id \in LookupPluralIds, n \in 0..MaxCount :
         lookup' = [NoLookup EXCEPT !.op = "GetN", !.id = id, !.n = n,
                                    !.idx = PluralForm(View.rule, n),
                                    !.val = DomainGetN(View, id, MsgItems, n, LookupArgs)]
    /\ UNCHANGED <<catalog, domain, objects, all, buff, po2, registryVars, parserVars>>

\* buff, err := po.GetDomain().MarshalBinary()
Marshal ==
    /\ buff = <<>>
    /\ buff' = MarshalBinary(View)
    /\ lookup' = NoLookup
    /\ UNCHANGED <<catalog, domain, objects, all, po2, registryVars, parserVars>>

\* err = po2.GetDomain().UnmarshalBinary(buff), po2 a new Po
Unmarshal ==
    /\ buff # <<>>
    /\ ~po2.set
    /\ po2' = [set |-> TRUE, ok |-> UnmarshalBinary(buff).ok, d |-> UnmarshalBinary(buff).d]
    /\ lookup' = NoLookup
    /\ UNCHANGED <<catalog, domain, objects, all, buff, registryVars, parserVars>>

(***************************************************************************)
(* The registry: configMap, defaultLang and the config objects.            *)
(* A config address is 1..MaxConfigs; 0 is the nil pointer.                *)
(***************************************************************************)
NilConfig == 0

Addrs == 1..MaxConfigs

\* A config object not yet allocated.
FreeConfig ==
    [alloc |-> FALSE, domain |-> "", language |-> <<>>, library |-> "",
     storage |-> NilStorage]

\* The keys configMap can hold and the values defaultLang can take.
LangCodes == {EmptyString, LangEn, LangEnUtf8, LangDe}

\* configMap[k], the nil pointer for a key the map does not hold.
MapGet(k) == configMap[k]

HasKey(k) == configMap[k] # NilConfig

\* A goroutine between calls.
IdleT ==
    [pc |-> "idle", op |-> "", lib |-> "", lang |-> <<>>, dom |-> "",
     str |-> <<>>, plural |-> <<>>, n |-> 0, ctx |-> "", vars |-> <<>>,
     cfg |-> NilConfig, storage |-> NilStorage]

\* No call has just returned.
NoRet == [kind |-> "none", t |-> "", op |-> "", val |-> <<>>, path |-> "", a |-> IdleT]

Unlocked == [writer |-> "", readers |-> [t \in Threads |-> 0]]

\* sync.RWMutex: RLock waits while a writer holds the lock.
CanRLock(c) == rw[c].writer = ""

\* sync.RWMutex: Lock waits while a writer or any reader holds the lock.
CanLock(c) == rw[c].writer = "" /\ \A t \in Threads : rw[c].readers[t] = 0

RLocked(c, t) == [rw EXCEPT ![c].readers[t] = @ + 1]

RUnlocked(c, t) == [rw EXCEPT ![c].readers[t] = @ - 1]

WLocked(c, t) == [rw EXCEPT ![c].writer = t]

WUnlocked(c) == [rw EXCEPT ![c].writer = ""]

\* The locks goroutine t holds.
HeldBy(t) == {c \in Addrs : rw[c].writer = t \/ rw[c].readers[t] > 0}

RegistryInit ==
    /\ configMap = [k \in LangCodes |-> NilConfig]
    /\ configs = [c \in Addrs |-> FreeConfig]
    /\ defaultLang = EmptyString
    /\ rw = [c \in Addrs |-> Unlocked]
    /\ th = [t \in Threads |-> IdleT]
    /\ ret = NoRet
    /\ calls = 0

\* The call r of goroutine t returns val to its caller. A returned string is a
\* sequence of tokens; a domain name or a library path is a single token.
ReturnFrom(t, r, val, path) ==
    /\ th' = [th EXCEPT ![t] = IdleT]
    /\ ret' = [kind |-> "return", t |-> t, op |-> r.op, val |-> val,
               path |-> path, a |-> r]

Return(t, val, path) == ReturnFrom(t, th[t], val, path)

\* The call r of goroutine t panics (a nil pointer dereference): it does not
\* return, and the goroutine makes no further call.
PanicFrom(t, r, at) ==
    /\ th' = [th EXCEPT ![t] = [IdleT EXCEPT !.pc = "panic"]]
    /\ ret' = [kind |-> "panic", t |-> t, op |-> r.op, val |-> <<>>,
               path |-> at, a |-> r]

Panic(t, at) == PanicFrom(t, th[t], at)

\* Goroutine t moves on inside its call.
Goto(t, r) ==
    /\ th' = [th EXCEPT ![t] = r]
    /\ ret' = NoRet

CanCall(t) == th[t].pc = "idle" /\ calls < MaxCalls

Begin(t, r) ==
    /\ CanCall(t)
    /\ calls' = calls + 1
    /\ Goto(t, r)

(***************************************************************************)
(* AddConfig and loadStorage.                                              *)
(***************************************************************************)
FreeAddrs == {c \in Addrs : ~configs[c].alloc}

\* The config literal of AddConfig: storage is left nil.
NewConfig(lib, lang, dom) ==
    [alloc |-> TRUE, domain |-> dom, language |-> SimplifiedLocale(lang),
     library |-> lib, storage |-> NilStorage]

\* The language code as the caller gave it, not simplified.
AddConfigKeyRaw(lang) == lang

\* The key AddConfig stores the config under.
AddConfigKey(lang) == SimplifiedLocale(lang)

\* The value AddConfig assigns to defaultLang.
AddConfigDefaultLang(lang) == lang

\* The value SetLanguage assigns to defaultLang.
SetLanguageValue(l) == SimplifiedLocale(l)

\* AddConfig is called: simplifyLang and the config literal c are built.
CallAddConfig(t, I) ==
    /\ FreeAddrs # {}
    /\ \E lib \in I.libs, lang \in I.langs, dom \in I.doms :
         LET c == MinOf(FreeAddrs) IN
         /\ configs' = [configs EXCEPT ![c] = NewConfig(lib, lang, dom)]
         /\ Begin(t, [IdleT EXCEPT !.pc = "AddConfig_153", !.op = "AddConfig",
                                   !.lib = lib, !.lang = lang, !.dom = dom, !.cfg = c])
    /\ UNCHANGED <<configMap, defaultLang, rw, domainVars, parserVars>>

\* configMap[simplifyLang] = &c
AddConfig_153(t) ==
    /\ th[t].pc = "AddConfig_153"
    /\ configMap' = [configMap EXCEPT ![AddConfigKey(th[t].lang)] = th[t].cfg]
    /\ Goto(t, [th[t] EXCEPT !.pc = "AddConfig_154"])
    /\ UNCHANGED <<configs, defaultLang, rw, calls, domainVars, parserVars>>

\* defaultLang = lang
AddConfig_154(t) ==
    /\ th[t].pc = "AddConfig_154"
    /\ defaultLang' = AddConfigDefaultLang(th[t].lang)
    /\ Goto(t, [th[t] EXCEPT !.pc = "loadStorage_67"])
    /\ UNCHANGED <<configMap, configs, rw, calls, domainVars, parserVars>>

\* loadStorage(simplifyLang): config, ok := configMap[lang]; if !ok { return }
loadStorage_67(t) ==
    /\ th[t].pc = "loadStorage_67"
    /\ LET lang == AddConfigKey(th[t].lang) IN
       IF ~HasKey(lang)
       THEN Return(t, <<>>, "noconfig")
       ELSE Goto(t, [th[t] EXCEPT !.pc = "loadStorage_71", !.cfg = MapGet(lang)])
    /\ UNCHANGED <<configMap, configs, defaultLang, rw, calls, domainVars, parserVars>>

\* config.Lock()
loadStorage_71(t) ==
    /\ th[t].pc = "loadStorage_71"
    /\ CanLock(th[t].cfg)
    /\ rw' = WLocked(th[t].cfg, t)
    /\ Goto(t, [th[t] EXCEPT !.pc = "loadStorage_73"])
    /\ UNCHANGED <<configMap, configs, defaultLang, calls, domainVars, parserVars>>

\* The Locale loadStorage works on: config.storage, or a new Locale when that
\* is nil, with config.domain loaded into it if it was not.
LoadedStorage(config) ==
    LET storage == IF config.storage.nil
                   THEN NewLocale(config.library, config.language)
                   ELSE config.storage
    IN IF config.domain \notin storage.Domains
       THEN LocaleAddDomain(storage, config.domain)
       ELSE storage

\* storage := config.storage ... storage.AddDomain(config.domain)
\* (a Locale that config.storage already points to is changed in place)
loadStorage_73(t) ==
    /\ th[t].pc = "loadStorage_73"
    /\ LET c == th[t].cfg
           s == LoadedStorage(configs[c])
       IN /\ configs' = IF configs[c].storage.nil THEN configs
                        ELSE [configs EXCEPT ![c].storage = s]
          /\ Goto(t, [th[t] EXCEPT !.pc = "loadStorage_81", !.storage = s])
    /\ UNCHANGED <<configMap, defaultLang, rw, calls, domainVars, parserVars>>

\* What loadStorage leaves in config.storage.
InstalledStorage(storage, config) == LocaleSetDomain(storage, config.domain)

\* storage.SetDomain(config.domain); config.storage = storage;
\* configMap[lang] = config; the deferred config.Unlock(); AddConfig returns.
loadStorage_81(t) ==
    /\ th[t].pc = "loadStorage_81"
    /\ LET c == th[t].cfg IN
       /\ configs' = [configs EXCEPT ![c].storage = InstalledStorage(th[t].storage, configs[c])]
       /\ configMap' = [configMap EXCEPT ![AddConfigKey(th[t].lang)] = c]
       /\ rw' = WUnlocked(c)
    /\ Return(t, <<>>, "loaded")
    /\ UNCHANGED <<defaultLang, calls, domainVars, parserVars>>

(***************************************************************************)
(* SetLanguage, GetLanguage, GetLibrary, GetDomain.                        *)
(***************************************************************************)
\* defaultLang = SimplifiedLocale(l)
SetLanguage(t, I) ==
    /\ CanCall(t)
    /\ calls' = calls + 1
    /\ \E l \in I.langs :
         /\ defaultLang' = SetLanguageValue(l)
         /\ ReturnFrom(t, [IdleT EXCEPT !.op = "SetLanguage", !.lang = l], <<>>, "")
    /\ UNCHANGED <<configMap, configs, rw, domainVars, parserVars>>

\* return defaultLang
GetLanguage(t) ==
    /\ CanCall(t)
    /\ calls' = calls + 1
    /\ ReturnFrom(t, [IdleT EXCEPT !.op = "GetLanguage"], defaultLang, "")
    /\ UNCHANGED <<configMap, configs, defaultLang, rw, domainVars, parserVars>>

\* configMap[lang] is the nil pointer: GetLibrary dereferences it.
GetLibraryNil(lang) == MapGet(lang) = NilConfig

GetLibraryValue(lang) == configs[MapGet(lang)].library

\* return configMap[lang].library
GetLibrary(t, I) ==
    /\ CanCall(t)
    /\ calls' = calls + 1
    /\ \E lang \in I.langs :
         LET r == [IdleT EXCEPT !.op = "GetLibrary", !.lang = lang] IN
         IF GetLibraryNil(lang)
         THEN PanicFrom(t, r, "GetLibrary_129")
         ELSE ReturnFrom(t, r, <<GetLibraryValue(lang)>>, "")
    /\ UNCHANGED <<configMap, configs, defaultLang, rw, domainVars, parserVars>>

CallGetDomain(t, I) ==
    /\ \E lang \in I.langs :
         Begin(t, [IdleT EXCEPT !.pc = "GetDomain_90", !.op = "GetDomain", !.lang = lang])
    /\ UNCHANGED <<configMap, configs, defaultLang, rw, domainVars, parserVars>>

\* The key GetDomain reads configMap at.
GetDomainKey(lang) == SimplifiedLocale(lang)

\* config := configMap[SimplifiedLocale(lang)]
GetDomain_90(t) ==
    /\ th[t].pc = "GetDomain_90"
    /\ Goto(t, [th[t] EXCEPT !.pc = "GetDomain_91", !.cfg = MapGet(GetDomainKey(th[t].lang))])
    /\ UNCHANGED <<configMap, configs, defaultLang, rw, calls, domainVars, parserVars>>

\* config.RLock(): a nil pointer dereference when the key was not in the map
GetDomain_91(t) ==
    /\ th[t].pc = "GetDomain_91"
    /\ IF th[t].cfg = NilConfig
       THEN /\ Panic(t, "GetDomain_91")
            /\ UNCHANGED rw
       ELSE /\ CanRLock(th[t].cfg)
            /\ rw' = RLocked(th[t].cfg, t)
            /\ Goto(t, [th[t] EXCEPT !.pc = "GetDomain_93"])
    /\ UNCHANGED <<configMap, configs, defaultLang, calls, domainVars, parserVars>>

\* The domain GetDomain answers with: the storage's, else the config's.
GetDomainValue(config) ==
    LET dom == IF ~config.storage.nil THEN LocaleGetDomain(config.storage) ELSE ""
    IN IF dom = "" THEN config.domain ELSE dom

\* Where Get, GetN, GetC and GetNC go on with the domain GetDomain returned.
LookupEntry(op) ==
    CASE op = "Get" -> "GetD_173"
      [] op = "GetN" -> "GetND_193"
      [] op = "GetC" -> "GetDC_223"
      [] op = "GetNC" -> "GetNDC_239"

\* if config.storage != nil { ... } return dom, with the deferred RUnlock.
\* Called from Get, GetN, GetC or GetNC, dom is the argument of the lookup.
GetDomain_93(t) ==
    /\ th[t].pc = "GetDomain_93"
    /\ LET c == th[t].cfg
           dom == GetDomainValue(configs[c])
       IN /\ rw' = RUnlocked(c, t)
          /\ IF th[t].op = "GetDomain"
             THEN Return(t, <<dom>>, "")
             ELSE Goto(t, [th[t] EXCEPT !.pc = LookupEntry(th[t].op), !.dom = dom,
                                        !.cfg = NilConfig])
    /\ UNCHANGED <<configMap, configs, defaultLang, calls, domainVars, parserVars>>

(***************************************************************************)
(* Get, GetN, GetC, GetNC: GetDomain(defaultLang), then the lookup.        *)
(***************************************************************************)
CallGet(t, I) ==
    /\ \E str \in I.strs, args \in I.varss :
         Begin(t, [IdleT EXCEPT !.pc = "Get_161", !.op = "Get", !.str = str, !.vars = args])
    /\ UNCHANGED <<configMap, configs, defaultLang, rw, domainVars, parserVars>>

CallGetN(t, I) ==
    /\ \E str \in I.strs, plural \in I.plurals, n \in I.ns, args \in I.varss :
         Begin(t, [IdleT EXCEPT !.pc = "GetN_167", !.op = "GetN", !.str = str,
                                !.plural = plural, !.n = n, !.vars = args])
    /\ UNCHANGED <<configMap, configs, defaultLang, rw, domainVars, parserVars>>

CallGetC(t, I) ==
    /\ \E str \in I.strs, ctx \in I.ctxs, args \in I.varss :
         Begin(t, [IdleT EXCEPT !.pc = "GetC_211", !.op = "GetC", !.str = str,
                                !.ctx = ctx, !.vars = args])
    /\ UNCHANGED <<configMap, configs, defaultLang, rw, domainVars, parserVars>>

CallGetNC(t, I) ==
    /\ \E str \in I.strs, plural \in I.plurals, n \in I.ns, ctx \in I.ctxs, args \in I.varss :
         Begin(t, [IdleT EXCEPT !.pc = "GetNC_217", !.op = "GetNC", !.str = str,
                                !.plural = plural, !.n = n, !.ctx = ctx, !.vars = args])
    /\ UNCHANGED <<configMap, configs, defaultLang, rw, domainVars, parserVars>>

\* The argument defaultLang of GetDomain(defaultLang) is read.
ReadDefaultLang(t, pc) ==
    /\ th[t].pc = pc
    /\ Goto(t, [th[t] EXCEPT !.pc = "GetDomain_90", !.lang = defaultLang])
    /\ UNCHANGED <<configMap, configs, defaultLang, rw, calls, domainVars, parserVars>>

Get_161(t) == ReadDefaultLang(t, "Get_161")

GetN_167(t) == ReadDefaultLang(t, "GetN_167")

GetC_211(t) == ReadDefaultLang(t, "GetC_211")

GetNC_217(t) == ReadDefaultLang(t, "GetNC_217")

(***************************************************************************)
(* GetD, GetND, GetDC, GetNDC.                                             *)
(***************************************************************************)
CallGetD(t, I) ==
    /\ \E dom \in I.doms, str \in I.strs, args \in I.varss :
         Begin(t, [IdleT EXCEPT !.pc = "GetD_173", !.op = "GetD", !.dom = dom,
                                !.str = str, !.vars = args])
    /\ UNCHANGED <<configMap, configs, defaultLang, rw, domainVars, parserVars>>

CallGetND(t, I) ==
    /\ \E dom \in I.doms, str \in I.strs, plural \in I.plurals, n \in I.ns, args \in I.varss :
         Begin(t, [IdleT EXCEPT !.pc = "GetND_193", !.op = "GetND", !.dom = dom,
                                !.str = str, !.plural = plural, !.n = n, !.vars = args])
    /\ UNCHANGED <<configMap, configs, defaultLang, rw, domainVars, parserVars>>

CallGetDC(t, I) ==
    /\ \E dom \in I.doms, str \in I.strs, ctx \in I.ctxs, args \in I.varss :
         Begin(t, [IdleT EXCEPT !.pc = "GetDC_223", !.op = "GetDC", !.dom = dom,
                                !.str = str, !.ctx = ctx, !.vars = args])
    /\ UNCHANGED <<configMap, configs, defaultLang, rw, domainVars, parserVars>>

CallGetNDC(t, I) ==
    /\ \E dom \in I.doms, str \in I.strs, plural \in I.plurals, n \in I.ns,
          ctx \in I.ctxs, args \in I.varss :
         Begin(t, [IdleT EXCEPT !.pc = "GetNDC_239", !.op = "GetNDC", !.dom = dom,
                                !.str = str, !.plural = plural, !.n = n, !.ctx = ctx,
                                !.vars = args])
    /\ UNCHANGED <<configMap, configs, defaultLang, rw, domainVars, parserVars>>

\* A fallback that returns str without formatting it.
GetD_NoConfigRaw(str, args) == str

\* if !ok { return Printf(str, vars...) } of GetD
GetD_NoConfig(str, args) == Printf(str, args)

\* if !ok { return Printf(str, vars...) } of GetND
GetND_NoConfig(str, plural, n, args) == Printf(str, args)

\* if !ok { return Printf(str, vars...) } of GetDC
GetDC_NoConfig(str, ctx, args) == Printf(str, args)

\* if !ok { return Printf(str, vars...) } of GetNDC
GetNDC_NoConfig(str, plural, n, ctx, args) == Printf(str, args)

\* config, ok := configMap[defaultLang]; if !ok { return noConfig }
LookupRead(t, pc, next, noConfig) ==
    /\ th[t].pc = pc
    /\ IF ~HasKey(defaultLang)
       THEN Return(t, noConfig, "noconfig")
       ELSE Goto(t, [th[t] EXCEPT !.pc = next, !.cfg = MapGet(defaultLang)])
    /\ UNCHANGED <<configMap, configs, defaultLang, rw, calls, domainVars, parserVars>>

\* config.RLock()
LookupRLock(t, pc, next) ==
    /\ th[t].pc = pc
    /\ CanRLock(th[t].cfg)
    /\ rw' = RLocked(th[t].cfg, t)
    /\ Goto(t, [th[t] EXCEPT !.pc = next])
    /\ UNCHANGED <<configMap, configs, defaultLang, calls, domainVars, parserVars>>

\* if _, ok := config.storage.Domains[dom]; !ok { config.storage.AddDomain(dom) }
\* A nil config.storage is dereferenced: the panic runs the deferred RUnlock.
LookupAddDomain(t, pc, next) ==
    /\ th[t].pc = pc
    /\ LET c == th[t].cfg IN
       IF configs[c].storage.nil
       THEN /\ rw' = RUnlocked(c, t)
            /\ Panic(t, pc)
            /\ UNCHANGED configs
       ELSE /\ configs' = IF th[t].dom \notin configs[c].storage.Domains
                          THEN [configs EXCEPT ![c].storage = LocaleAddDomain(@, th[t].dom)]
                          ELSE configs
            /\ Goto(t, [th[t] EXCEPT !.pc = next])
            /\ UNCHANGED rw
    /\ UNCHANGED <<configMap, defaultLang, calls, domainVars, parserVars>>

\* Whether the lookup of call r in Locale l resolves to a translation.
Resolves(l, r, plural) ==
    LET i == IF plural THEN PluralForm(LocaleDomain(l, r.dom).rule, r.n) ELSE 0
    IN LocaleHasForm(l, r.dom, r.str, r.ctx, i)

\* tr := config.storage.<lookup>; return tr, with the deferred RUnlock.
\* A nil config.storage is dereferenced: the panic runs the deferred RUnlock.
LookupReturn(t, pc, tr, plural) ==
    /\ th[t].pc = pc
    /\ LET c == th[t].cfg IN
       /\ rw' = RUnlocked(c, t)
       /\ IF configs[c].storage.nil
          THEN Panic(t, pc)
          ELSE Return(t, tr, IF Resolves(configs[c].storage, th[t], plural)
                             THEN "hit" ELSE "absent")
    /\ UNCHANGED <<configMap, configs, defaultLang, calls, domainVars, parserVars>>

\* The Locale of the config the lookup of goroutine t holds.
StorageOf(t) == configs[th[t].cfg].storage

GetD_173(t) ==
    LookupRead(t, "GetD_173", "GetD_177", GetD_NoConfig(th[t].str, th[t].vars))

GetD_177(t) == LookupRLock(t, "GetD_177", "GetD_181")

GetD_181(t) == LookupAddDomain(t, "GetD_181", "GetD_185")

GetD_185(t) ==
    LookupReturn(t, "GetD_185",
                 LocaleGetD(StorageOf(t), th[t].dom, th[t].str, th[t].vars), FALSE)

GetND_193(t) ==
    LookupRead(t, "GetND_193", "GetND_197",
               GetND_NoConfig(th[t].str, th[t].plural, th[t].n, th[t].vars))

GetND_197(t) == LookupRLock(t, "GetND_197", "GetND_199")

GetND_199(t) == LookupAddDomain(t, "GetND_199", "GetND_203")

GetND_203(t) ==
    LookupReturn(t, "GetND_203",
                 LocaleGetND(StorageOf(t), th[t].dom, th[t].str, th[t].plural,
                             th[t].n, th[t].vars), TRUE)

GetDC_223(t) ==
    LookupRead(t, "GetDC_223", "GetDC_227",
               GetDC_NoConfig(th[t].str, th[t].ctx, th[t].vars))

GetDC_227(t) == LookupRLock(t, "GetDC_227", "GetDC_231")

GetDC_231(t) ==
    LookupReturn(t, "GetDC_231",
                 LocaleGetDC(StorageOf(t), th[t].dom, th[t].str, th[t].ctx, th[t].vars),
                 FALSE)

GetNDC_239(t) ==
    LookupRead(t, "GetNDC_239", "GetNDC_243",
               GetNDC_NoConfig(th[t].str, th[t].plural, th[t].n, th[t].ctx, th[t].vars))

GetNDC_243(t) == LookupRLock(t, "GetNDC_243", "GetNDC_246")

GetNDC_246(t) ==
    LookupReturn(t, "GetNDC_246",
                 LocaleGetNDC(StorageOf(t), th[t].dom, th[t].str, th[t].plural,
                              th[t].n, th[t].ctx, th[t].vars), TRUE)

(***************************************************************************)
(* Accesses to the package variables configMap and defaultLang. No lock    *)
(* guards them: the config locks are taken after the map has been read.    *)
(***************************************************************************)
\* The statements that read configMap.
ReadsConfigMap ==
    {"loadStorage_67", "GetDomain_90", "GetD_173", "GetND_193", "GetDC_223", "GetNDC_239"}

\* The statements that write configMap: configMap[simplifyLang] = &c of
\* AddConfig and configMap[lang] = config of loadStorage.
WritesConfigMap == {"AddConfig_153", "loadStorage_81"}

\* The statements that read defaultLang.
ReadsDefaultLang ==
    {"Get_161", "GetN_167", "GetC_211", "GetNC_217",
     "GetD_173", "GetND_193", "GetDC_223", "GetNDC_239"}

\* The statement that writes defaultLang inside a call of several statements.
WritesDefaultLang == {"AddConfig_154"}

\* Goroutine t1 is about to write configMap while t2 is about to read or write it.
MapRace(t1, t2) ==
    /\ t1 # t2
    /\ th[t1].pc \in WritesConfigMap
    /\ th[t2].pc \in ReadsConfigMap \cup WritesConfigMap

\* Goroutine t1 is about to write defaultLang while t2 is about to read or write it.
LangRace(t1, t2) ==
    /\ t1 # t2
    /\ th[t1].pc \in WritesDefaultLang
    /\ th[t2].pc \in ReadsDefaultLang \cup WritesDefaultLang

\* The Go runtime may detect the unsynchronised map accesses ("fatal error:
\* concurrent map read and map write" / "concurrent map writes"): the process
\* exits, so no goroutine runs on and no lock stays held. When it does not,
\* the accesses take effect one after the other, in either order.
ConcurrentMapAccess ==
    \E t1, t2 \in Threads :
       /\ MapRace(t1, t2)
       /\ th' = [t \in Threads |-> [IdleT EXCEPT !.pc = "panic"]]
       /\ rw' = [c \in Addrs |-> Unlocked]
       /\ ret' = [kind |-> "fatal", t |-> t1, op |-> th[t1].op, val |-> <<>>,
                  path |-> th[t1].pc, a |-> th[t1]]
       /\ UNCHANGED <<configMap, configs, defaultLang, calls, domainVars, parserVars>>

(***************************************************************************)
(* The directory parser of xgotext: AddParser, ParseDir, ParseDirRec.      *)
(* A path is a string, a sequence of tokens; "/" separates its elements.   *)
(***************************************************************************)
Dot == <<".">>

\* filepath.Abs(dirPath) of the directory ParseDirRec is given.
RootPath == <<"/", "src">>

\* The path filepath.Walk hands to its callback for the entry rel below base.
Join(base, rel) == IF rel = Dot THEN base ELSE base \o <<"/">> \o rel

\* filepath.Rel(base, path) for a path at or below base.
Rel(base, path) ==
    IF path = base THEN Dot ELSE SubSeq(path, Len(base) + 2, Len(path))

\* strings.HasPrefix
HasPrefix(str, prefix) ==
    /\ Len(prefix) <= Len(str)
    /\ SubSeq(str, 1, Len(prefix)) = prefix

\* The entries a tree on disk may hold, in the lexical order filepath.Walk
\* visits them; up is the index of the parent directory (0 for the root).
DirEntries ==
    << [rel |-> Dot, dir |-> TRUE, up |-> 0],
       [rel |-> <<"a">>, dir |-> TRUE, up |-> 1],
       [rel |-> <<"a", "/", "b">>, dir |-> TRUE, up |-> 2],
       [rel |-> <<"a", "/", "f.go">>, dir |-> FALSE, up |-> 2],
       [rel |-> <<"vendor">>, dir |-> TRUE, up |-> 1],
       [rel |-> <<"vendor", "/", "x">>, dir |-> TRUE, up |-> 5],
       [rel |-> <<"vendor", "2">>, dir |-> TRUE, up |-> 1] >>

\* A tree: the root and, with every entry, its parent directory.
Trees ==
    {S \in SUBSET (1..Len(DirEntries)) :
        /\ 1 \in S
        /\ \A n \in S : DirEntries[n].up = 0 \/ DirEntries[n].up \in S}

\* The entries of tree S in the order filepath.Walk visits them; the callback
\* never returns filepath.SkipDir, so Walk descends into every directory.
WalkOrder(S) ==
    SelectSeq([n \in 1..Len(DirEntries) |-> n], LAMBDA n : n \in S)

\* The parser functions a program registers.
ParserFuncs == {"parseGo", "parseTmpl"}

\* The exclude lists ParseDirRec is called with.
ExcludeLists ==
    {<<>>, <<<<"vendor">>>>, <<<<"a", "/", "b">>>>, <<<<"a", "/", "b">>, <<"vendor">>>>}

NilErr == [from |-> "nil", path |-> <<>>, i |-> 0]

\* The error parser number i returned for the directory path.
ParserErr(path, i) == [from |-> "parser", path |-> path, i |-> i]

\* The error filepath.Walk hands to the callback for an entry it cannot read.
WalkErr(path) == [from |-> "walk", path |-> path, i |-> 0]

\* No ParseDir or ParseDirRec call is running.
IdleFrame ==
    [pc |-> "idle", op |-> "", dirPath |-> <<>>, exclude |-> <<>>, pending |-> <<>>,
     path |-> <<>>, basePath |-> <<>>, i |-> 0]

\* No call has just returned.
NoParseResult == [set |-> FALSE, op |-> "", exclude |-> <<>>, err |-> NilErr]

ParserIdle ==
    /\ knownParser = <<>>
    /\ tree = {1}
    /\ frame = IdleFrame
    /\ parsed = <<>>
    /\ log = <<>>
    /\ result = NoParseResult

\* A tree on disk, and no parser registered yet (knownParser is nil).
ParserInit ==
    /\ knownParser = <<>>
    /\ tree \in Trees
    /\ frame = IdleFrame
    /\ parsed = <<>>
    /\ log = <<>>
    /\ result = NoParseResult

\* The call returns err to its caller (exclude: the list it was called with).
ParserReturn(err) ==
    /\ result' = [set |-> TRUE, op |-> frame.op, exclude |-> frame.exclude, err |-> err]
    /\ frame' = IdleFrame

\* if knownParser == nil { knownParser = []ParseDirFunc{parser} }
\* else { knownParser = append(knownParser, parser) }
AddParser ==
    /\ frame.pc = "idle"
    /\ Len(knownParser) < MaxParsers
    /\ \E parser \in ParserFuncs :
         knownParser' = IF knownParser = <<>>
                        THEN <<parser>>
                        ELSE Append(knownParser, parser)
    /\ result' = NoParseResult
    /\ UNCHANGED <<tree, frame, parsed, log, registryVars, domainVars>>

\* ParseDir(dirPath, basePath, data) is called for a directory of the tree.
CallParseDir ==
    /\ frame.pc = "idle"
    /\ \E n \in tree :
         /\ DirEntries[n].dir
         /\ frame' = [IdleFrame EXCEPT !.pc = "ParseDir_31", !.op = "ParseDir",
                                       !.path = Join(RootPath, DirEntries[n].rel),
                                       !.basePath = RootPath, !.i = 1]
         /\ parsed' = <<Join(RootPath, DirEntries[n].rel)>>
    /\ log' = <<>>
    /\ result' = NoParseResult
    /\ UNCHANGED <<knownParser, tree, registryVars, domainVars>>

\* A loop that goes on to the next parser whatever the last one returned.
ParseDirNeverReturns(err) == FALSE

\* if err != nil { return err } in the loop of ParseDir
ParseDirReturns(err) == err

\* for _, parser := range knownParser { err := parser(dirPath, basePath, data) ... }
\* One turn of the loop: the next parser is called and returns nil or an error;
\* after the last parser ParseDir returns nil. Inside ParseDirRec the callback
\* hands an error to filepath.Walk, which stops and returns it, and goes on
\* with the walk after nil.
ParseDir_31 ==
    /\ frame.pc = "ParseDir_31"
    /\ IF frame.i > Len(knownParser)
       THEN /\ IF frame.op = "ParseDir"
               THEN ParserReturn(NilErr)
               ELSE /\ frame' = [frame EXCEPT !.pc = "Walk_44"]
                    /\ result' = NoParseResult
            /\ UNCHANGED log
       ELSE \E err \in BOOLEAN :
              /\ log' = Append(log, [v |-> Len(parsed), dir |-> frame.path,
                                     base |-> frame.basePath, i |-> frame.i,
                                     parser |-> knownParser[frame.i], err |-> err])
              /\ IF ParseDirReturns(err)
                 THEN ParserReturn(ParserErr(frame.path, frame.i))
                 ELSE /\ frame' = [frame EXCEPT !.i = @ + 1]
                      /\ result' = NoParseResult
    /\ UNCHANGED <<knownParser, tree, parsed, registryVars, domainVars>>

\* ParseDirRec(dirPath, exclude, data, verbose) is called for the root of the
\* tree: filepath.Walk(dirPath, ...) starts.
CallParseDirRec ==
    /\ frame.pc = "idle"
    /\ \E exclude \in ExcludeLists :
         frame' = [IdleFrame EXCEPT !.pc = "Walk_44", !.op = "ParseDirRec",
                                    !.dirPath = RootPath, !.exclude = exclude,
                                    !.pending = WalkOrder(tree)]
    /\ parsed' = <<>>
    /\ log' = <<>>
    /\ result' = NoParseResult
    /\ UNCHANGED <<knownParser, tree, registryVars, domainVars>>

\* for _, d := range exclude { if strings.HasPrefix(subDir, d) { return nil } }
SkipsDir(subDir, exclude) ==
    \E j \in 1..Len(exclude) : HasPrefix(subDir, exclude[j])

\* filepath.Walk calls the callback for the next entry, or returns nil after
\* the last one. The callback returns the error Walk hands it; it returns nil
\* for a file and for a directory the exclude list makes it skip; otherwise it
\* calls ParseDir(path, dirPath, data).
Walk_44 ==
    /\ frame.pc = "Walk_44"
    /\ IF frame.pending = <<>>
       THEN /\ ParserReturn(NilErr)
            /\ UNCHANGED parsed
       ELSE LET n == Head(frame.pending)
                path == Join(frame.dirPath, DirEntries[n].rel)
                subDir == Rel(frame.dirPath, path)
            IN \E err \in BOOLEAN :
                 IF err
                 THEN /\ ParserReturn(WalkErr(path))
                      /\ UNCHANGED parsed
                 ELSE /\ result' = NoParseResult
                      /\ IF DirEntries[n].dir /\ ~SkipsDir(subDir, frame.exclude)
                         THEN /\ frame' = [frame EXCEPT !.pc = "ParseDir_31",
                                                        !.pending = Tail(@),
                                                        !.path = path,
                                                        !.basePath = frame.dirPath,
                                                        !.i = 1]
                              /\ parsed' = Append(parsed, path)
                         ELSE /\ frame' = [frame EXCEPT !.pending = Tail(@)]
                              /\ UNCHANGED parsed
    /\ UNCHANGED <<knownParser, tree, log, registryVars, domainVars>>

(***************************************************************************)
(* The specifications.                                                     *)
(***************************************************************************)
\* The arguments the calls of one goroutine are drawn from.
Inputs ==
    [libs |-> {"lib1", "lib2"},
     langs |-> {LangEn, LangEnUtf8, LangDe},
     doms |-> {"default", "extra"},
     strs |-> {MsgHello, MsgName, MsgItem},
     plurals |-> {MsgItems},
     ns |-> {1, 2},
     ctxs |-> {NoContext, "menu"},
     varss |-> {<<>>, <<"5">>}]

\* The arguments the calls of concurrent goroutines are drawn from.
ConcInputs ==
    [libs |-> {"lib1"},
     langs |-> {LangEn, LangEnUtf8},
     doms |-> {"default", "extra"},
     strs |-> {MsgName},
     plurals |-> {MsgItems},
     ns |-> {2},
     ctxs |-> {NoContext},
     varss |-> {<<"5">>}]

Step(t, I) ==
    \/ CallAddConfig(t, I)
    \/ AddConfig_153(t)
    \/ AddConfig_154(t)
    \/ loadStorage_67(t)
    \/ loadStorage_71(t)
    \/ loadStorage_73(t)
    \/ loadStorage_81(t)
    \/ SetLanguage(t, I)
    \/ GetLanguage(t)
    \/ GetLibrary(t, I)
    \/ CallGetDomain(t, I)
    \/ GetDomain_90(t)
    \/ GetDomain_91(t)
    \/ GetDomain_93(t)
    \/ CallGet(t, I)
    \/ CallGetN(t, I)
    \/ CallGetC(t, I)
    \/ CallGetNC(t, I)
    \/ Get_161(t)
    \/ GetN_167(t)
    \/ GetC_211(t)
    \/ GetNC_217(t)
    \/ CallGetD(t, I)
    \/ CallGetND(t, I)
    \/ CallGetDC(t, I)
    \/ CallGetNDC(t, I)
    \/ GetD_173(t)
    \/ GetD_177(t)
    \/ GetD_181(t)
    \/ GetD_185(t)
    \/ GetND_193(t)
    \/ GetND_197(t)
    \/ GetND_199(t)
    \/ GetND_203(t)
    \/ GetDC_223(t)
    \/ GetDC_227(t)
    \/ GetDC_231(t)
    \/ GetNDC_239(t)
    \/ GetNDC_243(t)
    \/ GetNDC_246(t)

Init == RegistryInit /\ DomainIdle /\ ParserIdle

\* One goroutine: the calls run one after the other.
Next == \E t \in {MainThread} : Step(t, Inputs)

Spec == Init /\ [][Next]_vars

\* Two goroutines: the statements of their calls interleave.
ConcNext ==
    \/ \E t \in Threads : Step(t, ConcInputs)
    \/ ConcurrentMapAccess

ConcSpec == Init /\ [][ConcNext]_vars

\* One Domain parsed from a text catalog, and a caller of its methods.
DomainNext ==
    \/ GetTranslations
    \/ MutateFields
    \/ MutateTrs
    \/ MutateRefs
    \/ DomainLookup
    \/ DomainLookupN
    \/ Marshal
    \/ Unmarshal

DomainSpecInit == RegistryInit /\ DomainInit /\ ParserIdle

DomainSpec == DomainSpecInit /\ [][DomainNext]_vars

\* The xgotext tool: parsers are registered, and directories of a tree on disk
\* are parsed one by one or by a walk of the tree.
ParserNext ==
    \/ AddParser
    \/ CallParseDir
    \/ ParseDir_31
    \/ CallParseDirRec
    \/ Walk_44

ParserSpecInit == RegistryInit /\ DomainIdle /\ ParserInit

ParserSpec == ParserSpecInit /\ [][ParserNext]_vars

\* Two goroutines, each of which keeps being scheduled while it can take a step.
FairSpec ==
    ConcSpec /\ \A t \in Threads : WF_vars(Step(t, ConcInputs))

(***************************************************************************)
(* Properties of the package-level API.                                    *)
(***************************************************************************)
Returned(ops) == ret.kind = "return" /\ ret.op \in ops

Panicked(ops) == ret.kind = "panic" /\ ret.op \in ops

\* The lookup that has just returned found no translation: no configuration
\* under defaultLang, or no entry in the domain.
NoEntry == ret.path \in {"noconfig", "absent"}

\* C3: a GetD or GetDC lookup (called directly, or by Get or GetC) that finds
\* no matching entry returns str formatted with vars, and a non-empty str
\* never gives an empty result.
C3_AbsentStillFormats ==
    (Returned({"GetD", "GetDC", "Get", "GetC"}) /\ NoEntry)
        => /\ ret.val = Printf(ret.a.str, ret.a.vars)
           /\ (ret.a.str # EmptyString => ret.val # EmptyString)

\* GetD has returned for a string that has no entry in a registered domain, and
\* the argument was substituted into it.
C3_Witness ==
    /\ Returned({"GetD"})
    /\ ret.path = "absent"
    /\ ret.a.vars # <<>>
    /\ ret.val # ret.a.str
    /\ ret.val = <<"Hi", "5">>

\* C4: Get, GetN, GetC and GetNC never panic, whatever the registry holds, and
\* return the original string when no translation is found.
C4_DefaultLookupsNeverPanic ==
    /\ ~Panicked({"Get", "GetN", "GetC", "GetNC"})
    /\ (Returned({"Get", "GetC"}) /\ NoEntry)
           => ret.val = Printf(ret.a.str, ret.a.vars)

\* C5: a GetND or GetNDC lookup whose entry is absent returns plural formatted
\* with vars when n # 1 and str formatted with vars when n = 1.
C5_AbsentPluralFallback ==
    (Returned({"GetND", "GetNDC"}) /\ NoEntry)
        => ret.val = IF ret.a.n = 1
                     THEN Printf(ret.a.str, ret.a.vars)
                     ELSE Printf(ret.a.plural, ret.a.vars)

\* The statements at which a lookup reads config.storage, holding the read lock.
ReadsStorage ==
    {"GetD_181", "GetD_185", "GetND_199", "GetND_203", "GetDC_231", "GetNDC_246"}

\* The config has its Locale, with the configured domain loaded and selected.
Installed(c) ==
    /\ ~configs[c].storage.nil
    /\ configs[c].domain \in configs[c].storage.Domains
    /\ configs[c].storage.domain = configs[c].domain

\* C7: a reader that found a config in the registry and reads its storage
\* never sees it partially installed: the storage is non-nil and has the
\* configured domain loaded and selected.
C7_ReadersSeeInstalledConfig ==
    \A t \in Threads : th[t].pc \in ReadsStorage => Installed(th[t].cfg)

InCall(t) == th[t].pc \notin {"idle", "panic"}

\* C8: every started call eventually returns, holding none of the config
\* locks when it has, and no goroutine acquires a lock it already holds.
C8_EveryCallReturnsUnlocked ==
    /\ \A t \in Threads : InCall(t) ~> (th[t].pc = "idle")
    /\ [](\A t \in Threads : th[t].pc = "idle" => HeldBy(t) = {})
    /\ [](\A t \in Threads, c \in Addrs :
            /\ rw[c].readers[t] <= 1
            /\ ~(rw[c].writer = t /\ rw[c].readers[t] > 0))

\* The locking half of C8, which the code keeps: a goroutine that is not
\* inside a call (it returned or panicked) holds no lock, and no goroutine
\* holds the same lock twice.
LocksReleased ==
    \A t \in Threads :
        /\ ~InCall(t) => HeldBy(t) = {}
        /\ \A c \in Addrs : /\ rw[c].readers[t] <= 1
                            /\ ~(rw[c].writer = t /\ rw[c].readers[t] > 0)

\* The other half of C8 with a panic counted as the end of a call: every
\* started call eventually ends.
EveryCallEnds == \A t \in Threads : InCall(t) ~> ~InCall(t)

\* C9: right after AddConfig(lib, lang, dom) has returned, defaultLang is a key
\* of configMap, and it is the key GetDomain(defaultLang) uses.
C9_DefaultLangRegistered ==
    Returned({"AddConfig"})
        => /\ HasKey(defaultLang)
           /\ GetDomainKey(defaultLang) = defaultLang

\* C10: right after AddConfig(lib, lang, dom) has returned, GetDomain(lang)
\* gives dom, GetLibrary(lang) gives lib without dereferencing nil, and
\* GetLanguage() gives the language the configuration is stored under.
C10_GettersRoundTrip ==
    Returned({"AddConfig"})
        => LET lang == ret.a.lang IN
           /\ HasKey(GetDomainKey(lang))
           /\ GetDomainValue(configs[MapGet(GetDomainKey(lang))]) = ret.a.dom
           /\ ~GetLibraryNil(lang)
           /\ GetLibraryValue(lang) = ret.a.lib
           /\ defaultLang = AddConfigKey(lang)

(***************************************************************************)
(* Properties of the Domain.                                               *)
(***************************************************************************)
Parsed == ParseCatalog(catalog)

\* The Translation the caller holds for key k, and the Domain's own.
Copy(k) == TranslationAt(objects, all.m[k])

Own(k) == TranslationAt(objects, domain.translations[k])

\* C1: GetTranslations returns, for exactly the keys of the Domain, a Translation
\* object of its own with equal ID, PluralID and dirty flag and equally long
\* Trs and Refs; whatever the caller then writes to the returned entries and
\* their Trs and Refs, the Domain's entries and its lookup results stay what
\* the catalog parsed to.
C1_GetTranslationsCopies ==
    /\ all.set =>
          /\ DOMAIN all.m = DOMAIN domain.translations
          /\ \A k \in DOMAIN all.m, j \in DOMAIN domain.translations :
                all.m[k] # domain.translations[j]
    /\ lookup.op = "GetTranslations" =>
          \A k \in DOMAIN all.m :
             /\ Copy(k).ID = Own(k).ID
             /\ Copy(k).PluralID = Own(k).PluralID
             /\ Copy(k).dirty = Own(k).dirty
             /\ Len(Copy(k).Trs) = Len(Own(k).Trs)
             /\ Len(Copy(k).Refs) = Len(Own(k).Refs)
    /\ View = Parsed
    /\ lookup.op = "Get" =>
          lookup.val = DomainGetC(Parsed, lookup.id, lookup.ctx, LookupArgs)
    /\ lookup.op = "GetN" =>
          lookup.val = DomainGetN(Parsed, lookup.id, MsgItems, lookup.n, LookupArgs)

\* The caller has overwritten the fields, Trs[0] and Refs[0] of the entry it
\* was returned for "Hello", and the Domain still answers "Hola".
C1_Witness ==
    /\ all.set
    /\ Key(NoContext, MsgHello) \in DOMAIN all.m
    /\ Copy(Key(NoContext, MsgHello)).ID = MsgChanged
    /\ Copy(Key(NoContext, MsgHello)).Trs[1] = MsgChanged
    /\ Copy(Key(NoContext, MsgHello)).Refs = <<"changed.go:0">>
    /\ lookup.op = "Get" /\ lookup.id = MsgHello /\ lookup.ctx = NoContext
    /\ lookup.val = <<"Hola">>

\* C2: UnmarshalBinary of MarshalBinary of a parsed Domain succeeds and gives a
\* Domain with the same language whose Get result equals the original's for
\* every msgid and context.
C2_SnapshotRoundTrip ==
    po2.set =>
       /\ po2.ok
       /\ po2.d.language = View.language
       /\ \A id \in LookupIds \cup LookupPluralIds, ctx \in LookupCtxs :
             DomainGetC(po2.d, id, ctx, LookupArgs) = DomainGetC(View, id, ctx, LookupArgs)

\* A Domain of two entries and the language en_US has been restored from its
\* snapshot, and it translates "Hello".
C2_Witness ==
    /\ po2.set
    /\ po2.d.language = "en_US"
    /\ Cardinality(DOMAIN po2.d.tr) = 2
    /\ DomainGet(po2.d, MsgHello, LookupArgs) = <<"Hola">>
    /\ DomainGet(View, MsgHello, LookupArgs) = <<"Hola">>

MutatesStorage(t, c) ==
    /\ th[t].cfg = c
    /\ \/ /\ th[t].pc \in {"GetD_181", "GetND_199"}
          /\ ~configs[c].storage.nil
          /\ th[t].dom \notin configs[c].storage.Domains
       \/ /\ th[t].pc = "loadStorage_73"
          /\ ~configs[c].storage.nil
          /\ configs[c].domain \notin configs[c].storage.Domains
       \/ th[t].pc = "loadStorage_81"

\* C11: a goroutine changes a config's Locale only while it holds that config's
\* write lock, so no two goroutines are ever about to change the same Locale.
C11_StorageMutatedUnderWriteLock ==
    /\ \A t \in Threads, c \in Addrs : MutatesStorage(t, c) => rw[c].writer = t
    /\ \A t1, t2 \in Threads, c \in Addrs :
          (MutatesStorage(t1, c) /\ MutatesStorage(t2, c)) => t1 = t2

\* C12: configMap and defaultLang are never written while another goroutine
\* reads or writes them: no goroutine is about to write one of them while
\* another is about to access the same variable.
C12_RegistryAccessExcluded ==
    \A t1, t2 \in Threads : ~MapRace(t1, t2) /\ ~LangRace(t1, t2)

\* Goroutine t is at a statement that loads a catalog file: the AddDomain of
\* loadStorage (into a new Locale, or for a domain the Locale does not hold)
\* and the AddDomain of GetD and GetND for a domain not loaded yet.
LoadsCatalog(t) ==
    \/ /\ th[t].pc = "loadStorage_73"
       /\ \/ configs[th[t].cfg].storage.nil
          \/ configs[th[t].cfg].domain \notin configs[th[t].cfg].storage.Domains
    \/ /\ th[t].pc \in {"GetD_181", "GetND_199"}
       /\ ~configs[th[t].cfg].storage.nil
       /\ th[t].dom \notin configs[th[t].cfg].storage.Domains

\* C13: a catalog file is never loaded inside a locked region: a goroutine at
\* a statement that loads one holds no config lock, read or write.
C13_NoLoadUnderLock ==
    \A t \in Threads : LoadsCatalog(t) => HeldBy(t) = {}

(***************************************************************************)
(* Frame of AddConfig.                                                     *)
(***************************************************************************)
\* The step is one of a call AddConfig(lib, lang, dom) of goroutine t.
AddConfigStep(t) ==
    /\ th'[t] # th[t]
    /\ "AddConfig" \in {th[t].op, th'[t].op}

\* The language argument of the AddConfig call that takes the step.
AddConfigLang(t) == IF th[t].op = "AddConfig" THEN th[t].lang ELSE th'[t].lang

\* C14: every step of AddConfig(lib, lang, dom) leaves alone what is registered
\* under every key other than SimplifiedLocale(lang): the map entry and the
\* config it points to (domain, library, language, storage); and when AddConfig
\* returns, that key holds the configuration just given, with a storage that
\* holds nothing but its domain, loaded and selected.
C14_AddConfigFrame ==
    [][\A t \in Threads :
          LET key == SimplifiedLocale(AddConfigLang(t)) IN
          /\ AddConfigStep(t) =>
                \A k \in LangCodes \ {key} :
                   /\ configMap'[k] = configMap[k]
                   /\ configMap[k] # NilConfig =>
                         configs'[configMap[k]] = configs[configMap[k]]
          /\ (AddConfigStep(t) /\ ret'.kind = "return") =>
                LET c == configMap'[key] IN
                /\ c # NilConfig
                /\ configs'[c].domain = ret'.a.dom
                /\ configs'[c].library = ret'.a.lib
                /\ configs'[c].language = key
                /\ configs'[c].storage =
                      LocaleSetDomain(
                         LocaleAddDomain(NewLocale(ret'.a.lib, key), ret'.a.dom),
                         ret'.a.dom)]_vars

\* AddConfig("lib2", "de_DE", "extra") has returned while "en_US" was
\* registered: "en_US" still holds its lib1 configuration with its storage.
C14_Witness ==
    /\ Returned({"AddConfig"})
    /\ ret.a.lang = LangDe /\ ret.a.lib = "lib2" /\ ret.a.dom = "extra"
    /\ HasKey(LangEn)
    /\ configs[MapGet(LangEn)].library = "lib1"
    /\ configs[MapGet(LangEn)].domain = "default"
    /\ Installed(MapGet(LangEn))
    /\ HasKey(LangDe)
    /\ MapGet(LangDe) # MapGet(LangEn)
    /\ defaultLang = LangDe

(***************************************************************************)
(* Properties of the directory parser.                                     *)
(***************************************************************************)
\* A ParseDir or ParseDirRec call is running or has just returned.
ParserCall == frame.pc # "idle" \/ result.set

\* C15: within a ParseDir call the registered parsers are called in the order
\* AddParser registered them, each at most once, for the directory the call is
\* for; no parser is called after one that returned an error; ParseDir and
\* ParseDirRec return that first error, ParseDirRec having called ParseDir
\* for no directory after it; and they return nil only if every parser
\* returned nil for every directory parsed.
C15_ParsersInOrderFirstError ==
    ParserCall =>
       /\ \A j \in 1..Len(log) :
             /\ log[j].i \in 1..Len(knownParser)
             /\ log[j].parser = knownParser[log[j].i]
             /\ log[j].v \in 1..Len(parsed)
             /\ log[j].dir = parsed[log[j].v]
             /\ IF j = 1
                THEN log[j].v = 1 /\ log[j].i = 1
                ELSE \/ log[j].v = log[j - 1].v /\ log[j].i = log[j - 1].i + 1
                     \/ /\ log[j].v = log[j - 1].v + 1
                        /\ log[j].i = 1
                        /\ log[j - 1].i = Len(knownParser)
             /\ j < Len(log) => ~log[j].err
       /\ (log # <<>> /\ log[Len(log)].err) =>
             /\ result.set
             /\ result.err = ParserErr(log[Len(log)].dir, log[Len(log)].i)
             /\ log[Len(log)].v = Len(parsed)
       /\ (result.set /\ result.err.from = "parser") =>
             log # <<>> /\ log[Len(log)].err
       /\ (result.set /\ result.err = NilErr) =>
             /\ \A j \in 1..Len(log) : ~log[j].err
             /\ Len(log) = Len(parsed) * Len(knownParser)

\* ParseDirRec, with two parsers registered, has returned the error the first
\* parser gave for the second directory of a tree of four or more entries:
\* three parser calls were made and no directory was parsed after it.
C15_Witness ==
    /\ result.set /\ result.op = "ParseDirRec"
    /\ result.err.from = "parser"
    /\ Len(knownParser) = 2
    /\ Cardinality(tree) >= 4
    /\ Len(parsed) = 2
    /\ Len(log) = 3
    /\ log[3].err /\ log[3].i = 1
    /\ result.err = ParserErr(parsed[2], 1)

\* The directory at rel is in the exclude list or below a directory in it.
Excluded(rel, exclude) ==
    \E j \in 1..Len(exclude) :
       rel = exclude[j] \/ HasPrefix(rel, exclude[j] \o <<"/">>)

\* How many times ParseDir was called for path.
TimesParsed(path) == Cardinality({j \in 1..Len(parsed) : parsed[j] = path})

\* C16: a ParseDirRec that returns nil has called ParseDir exactly once for
\* every directory of the tree that is neither in the exclude list nor below a
\* directory in it, and never for any other directory.
C16_ParsesExactlyNonExcluded ==
    (result.set /\ result.op = "ParseDirRec" /\ result.err = NilErr) =>
       \A n \in tree :
          DirEntries[n].dir =>
             TimesParsed(Join(RootPath, DirEntries[n].rel)) =
                IF Excluded(DirEntries[n].rel, result.exclude) THEN 0 ELSE 1

====
